---- MODULE Spec2Model ----
(***************************************************************************)
(* Model of the xmux core (package xmux): the generic handler adapter      *)
(* built by Register, the optionsRouter decorator, RouterGroup.Bind and    *)
(* the mutex-guarded Groups registry, driven by concurrent callers.        *)
(***************************************************************************)
EXTENDS Integers, Sequences, FiniteSets, TLC

(* ------------------------------ bounds -------------------------------- *)

\* number of concurrent callers (goroutines)
NProcs == 2

\* total number of Groups.Register / Groups.Bind calls in one behaviour
MaxCalls == 3

\* total number of Groups.Register / Groups.Bind calls a single caller
\* makes one after the other
MaxSeqCalls == 4

\* total number of Handler.Invoke calls in one behaviour
MaxInvokes == 2

Procs == 1..NProcs

\* the nil error
Nil == "nil"

\* zero value of a dependency slot / parameter field
Zero == "zero"

(* --------------------- route groups given to DefineGroup --------------- *)

GroupIds == {"A", "B", "C"}

\* the dependency type (type parameter Handler) of each group
DepType(g) ==
    CASE g = "A" -> "IA"
      [] g = "B" -> "IB"
      [] g = "C" -> "IC"

\* the option maps captured by DefineGroup, in construction order
GroupOptions(g) ==
    CASE g = "A" -> << [x |-> "0", y |-> "2"] >>
      [] g = "B" -> << [p |-> "/b"], [x |-> "9"] >>
      [] g = "C" -> << >>

\* the Register calls the group's registerFn makes, in order
GroupRoutes(g) ==
    CASE g = "A" -> << [method |-> "GET",  path |-> "/a1", fn |-> "a1",
                        options |-> << [x |-> "1"] >>],
                       [method |-> "POST", path |-> "/a2", fn |-> "a2",
                        options |-> << [w |-> "5"] >>] >>
      [] g = "B" -> << [method |-> "GET",  path |-> "/b1", fn |-> "b1",
                        options |-> << >>] >>
      [] g = "C" -> << [method |-> "get",  path |-> "c1/", fn |-> "c1",
                        options |-> << [z |-> "3"] >>] >>

\* capacity of the options slice DefineGroup captured: A's caller passed a
\* slice with one spare element, B's a full one, C's none at all
GroupCap(g) ==
    CASE g = "A" -> 2
      [] g = "B" -> 2
      [] g = "C" -> 0

\* how the group's registerFn builds its business functions: as method
\* values of the dependency (Register(router, m, p, user.List)), evaluated
\* while registering, or as closures that use the dependency when invoked
UsesMethodValue(g) == g = "C"

\* argument lists the callers pass to Groups.Register
RegisterArgs == { <<"A", "B">>, <<"C">> }

(* ------------------------------ resolvers ------------------------------ *)

\* a Bind function: a type switch over the slot. It fails with err on the
\* slot types in fail, stores dep into a slot whose type is in fills, and
\* returns nil without touching a slot of any other type
Resolvers ==
    { [fail |-> {},     err |-> Nil,    dep |-> "d1",
       fills |-> {"IB", "IC"}, calls |-> "none"],
      [fail |-> {"IB"}, err |-> "errB", dep |-> "d2",
       fills |-> {"IA"}, calls |-> "none"] }

\* the Bind functions of the single caller: those above and one that
\* supplies d2 for every slot type
SeqResolvers ==
    Resolvers \cup
        { [fail |-> {}, err |-> Nil, dep |-> "d2",
           fills |-> {"IA", "IB", "IC"}, calls |-> "none"] }

\* Bind functions that, before they fill the slot, call back into the
\* Groups they are being run by: groups.Register(C), or
\* groups.Bind(router, bind) with themselves
ReentrantResolvers ==
    { [fail |-> {}, err |-> Nil, dep |-> "d1",
       fills |-> {"IA", "IB", "IC"}, calls |-> "Register"],
      [fail |-> {}, err |-> Nil, dep |-> "d1",
       fills |-> {"IA", "IB", "IC"}, calls |-> "Bind"] }

\* argument lists for Groups.Register; "G" is the Groups itself, which is a
\* Binder too
ReentrantArgs == { <<"A", "B">>, <<"G">> }

NoBind ==
    [fail |-> {}, err |-> Nil, dep |-> Zero, fills |-> {}, calls |-> "none"]

\* the error a resolver returns for a slot of type t
ResolveErr(bind, t) == IF t \in bind.fail THEN bind.err ELSE Nil

\* the value the slot holds after the resolver ran
ResolveVal(bind, t) ==
    IF t \in bind.fail \/ t \notin bind.fills THEN Zero ELSE bind.dep

(* ---------------------- handlers and their callers --------------------- *)

\* zero value of the declared Params type (two fields)
ZeroParams == [a |-> Zero, b |-> Zero]

\* zero value of the declared Response type
ZeroResponse == [msg |-> Zero]

\* the business functions handed to Register that callers invoke
InvokeFns == {"a1", "b1"}

\* what a business function returns for (ctx, *params): a1 echoes the
\* parameter it was given and succeeds, every other one fails and still
\* returns a non-zero response
FnResult(fn, ctx, params) ==
    IF fn = "a1"
    THEN [resp |-> [msg |-> params.a], err |-> Nil]
    ELSE [resp |-> [msg |-> "partial"], err |-> "errFn"]

\* the contexts callers pass to Invoke
Contexts == {"ctxLive", "ctxCancelled"}

\* request-parsing Bind functions: the fields they write into the slot
\* before returning err
ParamResolvers ==
    { [err |-> Nil,        writes |-> [a |-> "v1", b |-> "v2"]],
      [err |-> Nil,        writes |-> << >>],
      [err |-> "errParse", writes |-> [a |-> "v1"]] }

\* the slot after a resolver wrote its fields into it
Filled(params, writes) ==
    [f \in DOMAIN params |->
        IF f \in DOMAIN writes THEN writes[f] ELSE params[f]]

(* ----------------------------- option slices --------------------------- *)

\* a slice header: the address of its backing array (0: none), its length
\* and its capacity
NilSlice == [arr |-> 0, len |-> 0, cap |-> 0]

\* the nil map, which fills the unused elements of a backing array
NilMap == << >>

\* the address of the backing array of the options DefineGroup captured
GroupArr(g) ==
    CASE g = "A" -> 1
      [] g = "B" -> 2
      [] g = "C" -> 0

\* the options ...map[string]string that the closure of DefineGroup captured
GroupSlice(g) ==
    [arr |-> GroupArr(g), len |-> Len(GroupOptions(g)), cap |-> GroupCap(g)]

\* the backing arrays as the callers of DefineGroup left them
GroupArrays ==
    LET Backing(g) ==
            [i \in 1..GroupCap(g) |->
                IF i <= Len(GroupOptions(g)) THEN GroupOptions(g)[i]
                                             ELSE NilMap]
    IN  << Backing("A"), Backing("B") >>

\* the elements a slice holds
SliceValue(arrs, s) ==
    IF s.len = 0 THEN << >> ELSE SubSeq(arrs[s.arr], 1, s.len)

\* append(s, xs...): nothing to append gives s back; with room in the
\* backing array the new elements are written behind the slice's length,
\* in place; otherwise the elements move to a new array
AppendSlice(arrs, s, xs) ==
    IF xs = << >> THEN [arrays |-> arrs, slice |-> s]
    ELSE IF s.len + Len(xs) <= s.cap
    THEN [arrays |-> [arrs EXCEPT ![s.arr] =
                         [i \in 1..s.cap |->
                             IF i > s.len /\ i <= s.len + Len(xs)
                             THEN xs[i - s.len] ELSE @[i]]],
          slice |-> [s EXCEPT !.len = s.len + Len(xs)]]
    ELSE [arrays |-> Append(arrs, SliceValue(arrs, s) \o xs),
          slice |-> [arr |-> Len(arrs) + 1, len |-> s.len + Len(xs),
                     cap |-> s.len + Len(xs)]]

(* ------------------- the example's user store -------------------------- *)

\* the IDs (uuid.New()), usernames and e-mail addresses users are made of
UserIds == {"u1", "u2", "u3"}

Usernames == {"alice", "bob"}

Emails == {"a@x", "b@x"}

\* a models.User, as far as the store looks at it
Users == [id : UserIds, username : Usernames, email : Emails]

\* make(map[uuid.UUID]*models.User)
NoUsers == << >>

NoReply == [op |-> "none"]

\* a Go int within reach of one of three landmarks of its range: the value
\* seg * 2^(w-1) + off for an int of w bits, with seg = -1 (off >= 0) near
\* the least int, seg = 0 near zero, seg = 1 (off < 0) near the greatest
IntOf(n) == [seg |-> 0, off |-> n]

MaxInt == [seg |-> 1, off |-> -1]

\* a < b
IntLess(a, b) == a.seg < b.seg \/ (a.seg = b.seg /\ a.off < b.off)

\* a + b in Go: the sum modulo 2^w, in two's complement
IntAdd(a, b) ==
    LET s == a.seg + b.seg
        o == a.off + b.off
    IN  IF s = 2 \/ s = -2 THEN [seg |-> 0, off |-> o]
        ELSE IF s = 1 /\ o >= 0 THEN [seg |-> -1, off |-> o]
        ELSE IF s = -1 /\ o < 0 THEN [seg |-> 1, off |-> o]
        ELSE [seg |-> s, off |-> o]

\* the page size List falls back to
DefaultLimit == 10

\* the limit and offset arguments given to List
ListArgs ==
    { IntOf(-1), IntOf(0), IntOf(1), IntOf(2), MaxInt }

\* List, from the limit default on, over the n users it collected: the
\* bounds of users[start:end], and whether that slice expression panics
\* (it does unless 0 <= start <= end <= cap(users), and cap(users) = n)
ListBounds(n, limit, offset) ==
    LET lim == IF limit = IntOf(0) THEN IntOf(DefaultLimit) ELSE limit
        sum == IntAdd(offset, lim)
        start == IF IntLess(IntOf(n), offset) THEN IntOf(n) ELSE offset
        end == IF IntLess(IntOf(n), sum) THEN IntOf(n) ELSE sum
    IN  [start |-> start, end |-> end,
         panics |-> \/ IntLess(start, IntOf(0))
                    \/ IntLess(end, start)
                    \/ IntLess(IntOf(n), end)]

(* ------------------------------- state --------------------------------- *)

VARIABLES
    groups,   \* Groups.groups: the registry, entries [b, call]
    mu,       \* Groups.mu: 0 when unlocked, else the holder
    router,   \* the Register calls the concrete Router has received
    proc,     \* per caller: position and locals of the call in progress
    ncalls,   \* number of calls started so far (calls are numbered in
              \* the order they were made)
    trace,    \* observed steps: lock acquisitions, resolver calls and
              \* registrations, in the order they happened
    done,     \* the calls that have returned, with what they returned
    heap,     \* the parameter instances allocated by Invoke, by address
    arrays,   \* the backing arrays of the option slices, by address
    users,    \* InMemoryUserRepository.users: the stored users, by ID
    reply     \* what the last call on the user store did and returned

vars ==
    << groups, mu, router, proc, ncalls, trace, done, heap, arrays,
       users, reply >>

\* a call made by a caller has no frame underneath it
NoFrame == "none"

Idle ==
    [pc |-> "idle", call |-> 0, args |-> << >>, bind |-> NoBind,
     tmp |-> << >>, rng |-> << >>, idx |-> 0, handler |-> Zero,
     opts |-> NilSlice,
     k |-> 0, err |-> Nil,
     api |-> Zero, ctx |-> Zero, params |-> 0, resp |-> ZeroResponse,
     outer |-> NoFrame, via |-> "caller", reentered |-> FALSE]

Init ==
    /\ groups = << >>
    /\ mu = 0
    /\ router = << >>
    /\ proc = [p \in Procs |-> Idle]
    /\ ncalls = 0
    /\ trace = << >>
    /\ done = {}
    /\ heap = << >>
    /\ arrays = GroupArrays
    /\ users = NoUsers
    /\ reply = NoReply

\* callers are interchangeable: a new call is made by the first idle one
FirstIdle(p) ==
    /\ proc[p].pc = "idle"
    /\ \A q \in Procs : q < p => proc[q].pc # "idle"

(* ------------------------------ sync.Mutex ----------------------------- *)

\* variant: Lock never waits
CanLockAlways(m) == TRUE

\* Lock succeeds only while nobody holds the mutex
CanLock(m) == m = 0

\* position after the loop body for entry i-1 is done
LoopHead(i, rng) == IF i <= Len(rng) THEN "group_bind" ELSE "bind_unlock"

\* where a caller is once its call returned e: idle after a call of its
\* own; back in the range loop of the Bind underneath, with e as the result
\* of group.Bind, when the call was the Bind of a registry entry; back in
\* the resolver that made the call otherwise
Resume(f, e) ==
    IF f.outer = NoFrame THEN Idle
    ELSE IF f.via = "entry"
    THEN [f.outer EXCEPT
             !.err = e,
             !.idx = IF e # Nil THEN @ ELSE @ + 1,
             !.pc = IF e # Nil THEN "bind_unlock"
                    ELSE LoopHead(f.outer.idx + 1, f.outer.rng)]
    ELSE [f.outer EXCEPT !.reentered = TRUE]

(* --------------------------- Groups.Register --------------------------- *)

\* a caller enters Groups.Register(groups...)
RegisterCall(p, a) ==
    /\ FirstIdle(p)
    /\ ncalls < MaxCalls
    /\ ncalls' = ncalls + 1
    /\ proc' = [proc EXCEPT ![p] = [Idle EXCEPT !.pc = "reg_lock",
                                                !.call = ncalls + 1,
                                                !.args = a]]
    /\ UNCHANGED << groups, mu, router, trace, done, heap, arrays,
                    users, reply >>

\* g.mu.Lock()
RegisterLock(p) ==
    /\ proc[p].pc = "reg_lock"
    /\ CanLock(mu)
    /\ mu' = p
    /\ proc' = [proc EXCEPT ![p].pc = "reg_read"]
    /\ trace' = Append(trace, [kind |-> "lock", call |-> proc[p].call,
                               op |-> "Register", reg |-> groups])
    /\ UNCHANGED << groups, router, ncalls, done, heap, arrays,
                    users, reply >>

\* the entries one Register call appends, tagged with the call
Tagged(a, c) == [i \in 1..Len(a) |-> [b |-> a[i], call |-> c]]

\* append(g.groups, groups...): the read of g.groups
RegisterRead(p) ==
    /\ proc[p].pc = "reg_read"
    /\ proc' = [proc EXCEPT ![p].pc = "reg_write", ![p].tmp = groups]
    /\ UNCHANGED << groups, mu, router, ncalls, trace, done, heap, arrays,
                    users, reply >>

\* variant: the new groups go in front of the registry
RegisterWritePrepends(p) ==
    /\ proc[p].pc = "reg_write"
    /\ groups' = Tagged(proc[p].args, proc[p].call) \o proc[p].tmp
    /\ proc' = [proc EXCEPT ![p].pc = "reg_unlock"]
    /\ UNCHANGED << mu, router, ncalls, trace, done, heap, arrays,
                    users, reply >>

\* g.groups = append(...): the write of g.groups
RegisterWrite(p) ==
    /\ proc[p].pc = "reg_write"
    /\ groups' = proc[p].tmp \o Tagged(proc[p].args, proc[p].call)
    /\ proc' = [proc EXCEPT ![p].pc = "reg_unlock"]
    /\ UNCHANGED << mu, router, ncalls, trace, done, heap, arrays,
                    users, reply >>

\* return g, after the deferred g.mu.Unlock()
RegisterUnlock(p) ==
    /\ proc[p].pc = "reg_unlock"
    /\ mu' = 0
    /\ done' = done \cup {[call |-> proc[p].call, op |-> "Register",
                            args |-> proc[p].args, after |-> ncalls]}
    /\ proc' = [proc EXCEPT ![p] = Resume(proc[p], Nil)]
    /\ UNCHANGED << groups, router, ncalls, trace, heap, arrays,
                    users, reply >>

(* ----------------------------- Groups.Bind ----------------------------- *)

\* a caller enters Groups.Bind(router, bind)
BindCall(p, r) ==
    /\ FirstIdle(p)
    /\ ncalls < MaxCalls
    /\ ncalls' = ncalls + 1
    /\ proc' = [proc EXCEPT ![p] = [Idle EXCEPT !.pc = "bind_lock",
                                                !.call = ncalls + 1,
                                                !.bind = r]]
    /\ UNCHANGED << groups, mu, router, trace, done, heap, arrays,
                    users, reply >>

\* g.mu.Lock()
BindLock(p) ==
    /\ proc[p].pc = "bind_lock"
    /\ CanLock(mu)
    /\ mu' = p
    /\ proc' = [proc EXCEPT ![p].pc = "bind_range"]
    /\ trace' = Append(trace, [kind |-> "lock", call |-> proc[p].call,
                               op |-> "Bind", reg |-> groups])
    /\ UNCHANGED << groups, router, ncalls, done, heap, arrays,
                    users, reply >>

\* for _, group := range g.groups: the range expression is evaluated once
BindRange(p) ==
    /\ proc[p].pc = "bind_range"
    /\ proc' = [proc EXCEPT ![p].rng = groups, ![p].idx = 1,
                            ![p].pc = LoopHead(1, groups)]
    /\ UNCHANGED << groups, mu, router, ncalls, trace, done, heap, arrays,
                    users, reply >>

\* variant: the loop walks the registry from its end
EntryReversed(rng, i) == rng[Len(rng) + 1 - i]

\* the entry the i-th iteration of the range loop binds
Entry(rng, i) == rng[i]

\* variant: the loop carries on with the next entry after an error
AfterResolveContinue(e, g, i, rng) ==
    IF e # Nil \/ GroupRoutes(g) = << >>
    THEN [pc |-> LoopHead(i + 1, rng), idx |-> i + 1]
    ELSE [pc |-> "group_register", idx |-> i]

\* variant: the registration function runs whatever the resolver returned
AfterResolveIgnoresErr(e, g, i, rng) ==
    IF GroupRoutes(g) = << >>
    THEN [pc |-> LoopHead(i + 1, rng), idx |-> i + 1]
    ELSE [pc |-> "group_register", idx |-> i]

\* variant: the registration function is not called
AfterResolveSkipsRegister(e, g, i, rng) ==
    IF e # Nil THEN [pc |-> "bind_unlock", idx |-> i]
    ELSE [pc |-> LoopHead(i + 1, rng), idx |-> i + 1]

\* where Groups.Bind goes once the resolver of entry i (group g) returned e:
\* out of the loop on an error, else into the registration function, or to
\* the next entry when that function registers nothing
AfterResolve(e, g, i, rng) ==
    IF e # Nil THEN [pc |-> "bind_unlock", idx |-> i]
    ELSE IF GroupRoutes(g) = << >>
         THEN [pc |-> LoopHead(i + 1, rng), idx |-> i + 1]
         ELSE [pc |-> "group_register", idx |-> i]

\* variant: the group keeps its handler slot from one Bind to the next, so
\* the resolver writes into what the last resolver of the group left there
GroupResolveKeepsHandler(p) ==
    /\ proc[p].pc = "group_bind"
    /\ Entry(proc[p].rng, proc[p].idx).b # "G"
    /\ proc[p].bind.calls = "none" \/ proc[p].reentered
    /\ LET ent == Entry(proc[p].rng, proc[p].idx)
           g == ent.b
           before == {i \in DOMAIN trace : /\ trace[i].kind = "resolve"
                                           /\ trace[i].entry.b = g}
           kept == IF before = {} THEN Zero
                   ELSE trace[CHOOSE i \in before :
                                  \A j \in before : j <= i].slot
           e == ResolveErr(proc[p].bind, DepType(g))
           v == IF DepType(g) \in proc[p].bind.fail
                   \/ DepType(g) \notin proc[p].bind.fills
                THEN kept ELSE proc[p].bind.dep
           n == AfterResolve(e, g, proc[p].idx, proc[p].rng)
           resolved == [kind |-> "resolve", call |-> proc[p].call,
                        idx |-> proc[p].idx, entry |-> ent,
                        err |-> e, slot |-> v, bind |-> proc[p].bind]
           entered == [kind |-> "regfn", call |-> proc[p].call,
                       idx |-> proc[p].idx, entry |-> ent,
                       options |-> SliceValue(arrays, GroupSlice(g)),
                       dep |-> v]
       IN  /\ trace' = IF n.pc = "group_register"
                       THEN trace \o << resolved, entered >>
                       ELSE Append(trace, resolved)
           /\ proc' = [proc EXCEPT
                  ![p].handler = v,
                  ![p].opts = GroupSlice(g),
                  ![p].err = e,
                  ![p].k = 1,
                  ![p].idx = n.idx,
                  ![p].pc = n.pc,
                  ![p].reentered = FALSE]
    /\ UNCHANGED << groups, mu, router, ncalls, done, heap, arrays,
                    users, reply >>

\* RouterGroup.Bind: var handler Handler; err = bind(&handler); on success
\* g.register(router, handler), which hands registerFn a new optionsRouter
\* around the Router, holding the captured options, and the handler
GroupResolve(p) ==
    /\ proc[p].pc = "group_bind"
    /\ Entry(proc[p].rng, proc[p].idx).b # "G"
    /\ proc[p].bind.calls = "none" \/ proc[p].reentered
    /\ LET ent == Entry(proc[p].rng, proc[p].idx)
           g == ent.b
           e == ResolveErr(proc[p].bind, DepType(g))
           v == ResolveVal(proc[p].bind, DepType(g))
           n == AfterResolve(e, g, proc[p].idx, proc[p].rng)
           resolved == [kind |-> "resolve", call |-> proc[p].call,
                        idx |-> proc[p].idx, entry |-> ent,
                        err |-> e, slot |-> v, bind |-> proc[p].bind]
           entered == [kind |-> "regfn", call |-> proc[p].call,
                       idx |-> proc[p].idx, entry |-> ent,
                       options |-> SliceValue(arrays, GroupSlice(g)),
                       dep |-> v]
       IN  /\ trace' = IF n.pc = "group_register"
                       THEN trace \o << resolved, entered >>
                       ELSE Append(trace, resolved)
           /\ proc' = [proc EXCEPT
                  ![p].handler = v,
                  ![p].opts = GroupSlice(g),
                  ![p].err = e,
                  ![p].k = 1,
                  ![p].idx = n.idx,
                  ![p].pc = n.pc,
                  ![p].reentered = FALSE]
    /\ UNCHANGED << groups, mu, router, ncalls, done, heap, arrays,
                    users, reply >>

\* group.Bind(router, bind) where the entry is the Groups itself: the
\* caller enters Groups.Bind again, on top of the Bind it is in
EntryIsGroups(p) ==
    /\ proc[p].pc = "group_bind"
    /\ Entry(proc[p].rng, proc[p].idx).b = "G"
    /\ ncalls' = ncalls + 1
    /\ proc' = [proc EXCEPT ![p] = [Idle EXCEPT !.pc = "bind_lock",
                                                !.call = ncalls + 1,
                                                !.bind = proc[p].bind,
                                                !.outer = proc[p],
                                                !.via = "entry"]]
    /\ UNCHANGED << groups, mu, router, trace, done, heap, arrays,
                    users, reply >>

\* bind(&handler) where the resolver first calls back into the Groups: the
\* caller enters Groups.Register(C) or Groups.Bind(router, bind) on top of
\* the Bind it is in
ResolverCallsBack(p) ==
    /\ proc[p].pc = "group_bind"
    /\ Entry(proc[p].rng, proc[p].idx).b # "G"
    /\ proc[p].bind.calls # "none"
    /\ ~proc[p].reentered
    /\ ncalls' = ncalls + 1
    /\ proc' = [proc EXCEPT ![p] =
           IF proc[p].bind.calls = "Register"
           THEN [Idle EXCEPT !.pc = "reg_lock", !.call = ncalls + 1,
                             !.args = << "C" >>,
                             !.outer = proc[p], !.via = "resolver"]
           ELSE [Idle EXCEPT !.pc = "bind_lock", !.call = ncalls + 1,
                             !.bind = proc[p].bind,
                             !.outer = proc[p], !.via = "resolver"]]
    /\ UNCHANGED << groups, mu, router, trace, done, heap, arrays,
                    users, reply >>

\* the Handler that Register builds around fn (fn closes over the dependency)
HandlerOf(fn, dep) == [fn |-> fn, dep |-> dep]

\* variant: Register tidies the method and the path up, as a Router would
RegisterHelperNormalizes(method, path, fn, dep, options) ==
    [method |-> IF method = "get" THEN "GET" ELSE method,
     path |-> IF path = "c1/" THEN "/c1" ELSE path,
     api |-> HandlerOf(fn, dep), options |-> options]

\* Register: the one router.Register call it makes on the Router it was
\* given, with the HandlerFunc it built around fn
RegisterHelper(method, path, fn, dep, options) ==
    [method |-> method, path |-> path,
     api |-> HandlerOf(fn, dep), options |-> options]

\* variant: the route's options go in front of the group's
OptionsRouterRegisterRouteFirst(arrs, o, call) ==
    [arrays |-> Append(arrs, call.options \o SliceValue(arrs, o)),
     call |-> [method |-> call.method, path |-> call.path, api |-> call.api,
               options |-> call.options \o SliceValue(arrs, o),
               slice |-> [arr |-> Len(arrs) + 1,
                          len |-> Len(call.options) + o.len,
                          cap |-> Len(call.options) + o.len]]]

\* optionsRouter.Register: the call it makes on the inner Router,
\* o.router.Register(method, path, api, append(o.options, options...)...),
\* and the backing arrays after the append. The inner Router is handed the
\* slice itself: options is what it holds at the call
OptionsRouterRegister(arrs, o, call) ==
    LET r == AppendSlice(arrs, o, call.options)
    IN  [arrays |-> r.arrays,
         call |-> [method |-> call.method, path |-> call.path,
                   api |-> call.api,
                   options |-> SliceValue(r.arrays, r.slice),
                   slice |-> r.slice]]

\* variant: a key that is already in the result keeps its value
MergeIntoKeepsFirst(result, opts) ==
    [k \in DOMAIN result \cup DOMAIN opts |->
        IF k \in DOMAIN result THEN result[k] ELSE opts[k]]

\* for k, v := range opts { result[k] = v }
MergeInto(result, opts) ==
    [k \in DOMAIN result \cup DOMAIN opts |->
        IF k \in DOMAIN opts THEN opts[k] ELSE result[k]]

RECURSIVE MergeFrom(_, _, _)
\* the loop of mergeOptions from the i-th map on
MergeFrom(result, options, i) ==
    IF i > Len(options) THEN result
    ELSE MergeFrom(MergeInto(result, options[i]), options, i + 1)

\* mergeOptions(options...): one map out of the option maps, filled map
\* after map into an empty result
MergeOptions(options) == MergeFrom(<< >>, options, 1)

\* GinRouter.Register as far as the options go: the call it received
\* together with routeOptions := mergeOptions(options...)
GinRegister(call) ==
    [method |-> call.method, path |-> call.path, api |-> call.api,
     options |-> call.options, slice |-> call.slice,
     merged |-> MergeOptions(call.options)]

\* variant: the decorator keeps the appended options for its next call
DecoratorAfterKeeps(o, appended) == appended

\* the options the optionsRouter holds after a Register call: Register has
\* a value receiver and assigns nothing
DecoratorAfter(o, appended) == o

\* evaluating a method value of a nil interface panics
NilDeref(g, handler) == UsesMethodValue(g) /\ handler = Zero

\* the k-th Register call of registerFn, made through the optionsRouter
GroupRegister(p) ==
    /\ proc[p].pc = "group_register"
    /\ LET ent == Entry(proc[p].rng, proc[p].idx)
           g  == ent.b
           rt == GroupRoutes(g)[proc[p].k]
           last == proc[p].k = Len(GroupRoutes(g))
           call == RegisterHelper(rt.method, rt.path, rt.fn,
                                  proc[p].handler, rt.options)
           reg == OptionsRouterRegister(arrays, proc[p].opts, call)
       IN  /\ ~NilDeref(g, proc[p].handler)
           /\ router' = Append(router, GinRegister(reg.call))
           /\ arrays' = reg.arrays
           /\ trace' = Append(trace, [kind |-> "register", call |-> proc[p].call,
                                      idx |-> proc[p].idx, entry |-> ent,
                                      k |-> proc[p].k, given |-> call,
                                      at |-> Len(router) + 1])
           /\ proc' = [proc EXCEPT
                  ![p].opts = DecoratorAfter(proc[p].opts, reg.call.slice),
                  ![p].k = proc[p].k + 1,
                  ![p].idx = IF last THEN proc[p].idx + 1 ELSE proc[p].idx,
                  ![p].pc = IF last
                            THEN LoopHead(proc[p].idx + 1, proc[p].rng)
                            ELSE "group_register"]
    /\ UNCHANGED << groups, mu, ncalls, done, heap,
                    users, reply >>

\* registerFn panics while it evaluates the arguments of a Register call:
\* the panic unwinds RouterGroup.Bind and Groups.Bind, the deferred
\* g.mu.Unlock() runs, and the call ends without returning
GroupPanic(p) ==
    /\ proc[p].pc = "group_register"
    /\ NilDeref(Entry(proc[p].rng, proc[p].idx).b, proc[p].handler)
    /\ mu' = 0
    /\ trace' = Append(trace, [kind |-> "panic", call |-> proc[p].call,
                               idx |-> proc[p].idx,
                               entry |-> Entry(proc[p].rng, proc[p].idx)])
    /\ done' = done \cup {[call |-> proc[p].call, op |-> "BindPanic",
                            err |-> "nil dereference"]}
    /\ proc' = [proc EXCEPT ![p] = Idle]
    /\ UNCHANGED << groups, router, ncalls, heap, arrays,
                    users, reply >>

\* variant: a Bind that is done empties the registry
BindUnlockClears(p) ==
    /\ proc[p].pc = "bind_unlock"
    /\ mu' = 0
    /\ groups' = << >>
    /\ done' = done \cup {[call |-> proc[p].call, op |-> "Bind",
                            err |-> proc[p].err]}
    /\ proc' = [proc EXCEPT ![p] = Resume(proc[p], proc[p].err)]
    /\ UNCHANGED << router, ncalls, trace, heap, arrays,
                    users, reply >>

\* return err, after the deferred g.mu.Unlock()
BindUnlock(p) ==
    /\ proc[p].pc = "bind_unlock"
    /\ mu' = 0
    /\ done' = done \cup {[call |-> proc[p].call, op |-> "Bind",
                            err |-> proc[p].err]}
    /\ proc' = [proc EXCEPT ![p] = Resume(proc[p], proc[p].err)]
    /\ UNCHANGED << groups, router, ncalls, trace, heap, arrays,
                    users, reply >>

(* ------------------- the Handler built by Register --------------------- *)

\* variant: the handler keeps one parameter instance for all its calls
InvokeCallSharesParams(p, h, c, r) ==
    /\ FirstIdle(p)
    /\ ncalls < MaxInvokes
    /\ ncalls' = ncalls + 1
    /\ heap' = IF heap = << >> THEN << ZeroParams >> ELSE heap
    /\ proc' = [proc EXCEPT ![p] = [Idle EXCEPT !.pc = "inv_bind",
                                                !.call = ncalls + 1,
                                                !.api = h,
                                                !.ctx = c,
                                                !.bind = r,
                                                !.params = 1]]
    /\ UNCHANGED << groups, mu, router, trace, done, arrays,
                    users, reply >>

\* a caller (a Router adapter serving a request) enters
\* HandlerFunc.Invoke(ctx, bind); the closure starts with: var params Params
InvokeCall(p, h, c, r) ==
    /\ FirstIdle(p)
    /\ ncalls < MaxInvokes
    /\ ncalls' = ncalls + 1
    /\ heap' = Append(heap, ZeroParams)
    /\ proc' = [proc EXCEPT ![p] = [Idle EXCEPT !.pc = "inv_bind",
                                                !.call = ncalls + 1,
                                                !.api = h,
                                                !.ctx = c,
                                                !.bind = r,
                                                !.params = Len(heap) + 1]]
    /\ UNCHANGED << groups, mu, router, trace, done, arrays,
                    users, reply >>

\* variant: Invoke hands back the zero Response
ToAnyZero(resp) == [type |-> "Response", value |-> ZeroResponse]

\* conversion of a Response to the any that Handler.Invoke returns
ToAny(resp) == [type |-> "Response", value |-> resp]

\* HandlerFunc.Invoke: return h(ctx, bind), the Response converted to any
Returned(p, resp, err) ==
    [call |-> proc[p].call, op |-> "Invoke", fn |-> proc[p].api.fn,
     ctx |-> proc[p].ctx, resp |-> ToAny(resp), err |-> err]

\* variant: the closure calls fn whatever bind returned
BindFailedIgnored(e) == FALSE

\* if err = bind(&params); err != nil
BindFailed(e) == e # Nil

\* variant: Invoke gives up on a cancelled context before it resolves
InvokeBindChecksCtx(p) ==
    /\ proc[p].pc = "inv_bind"
    /\ LET ptr == proc[p].params
           e   == proc[p].bind.err
       IN  IF proc[p].ctx = "ctxCancelled"
           THEN /\ done' = done \cup {Returned(p, ZeroResponse, "errCancelled")}
                /\ proc' = [proc EXCEPT ![p] = Idle]
                /\ UNCHANGED << heap, trace,
                                users, reply >>
           ELSE /\ heap' = [heap EXCEPT
                                ![ptr] = Filled(heap[ptr], proc[p].bind.writes)]
                /\ trace' = Append(trace, [kind |-> "bind",
                                           call |-> proc[p].call,
                                           ptr |-> ptr, err |-> e,
                                           writes |-> proc[p].bind.writes])
                /\ IF BindFailed(e)
                   THEN /\ done' = done \cup {Returned(p, ZeroResponse, e)}
                        /\ proc' = [proc EXCEPT ![p] = Idle]
                   ELSE /\ done' = done
                        /\ proc' = [proc EXCEPT ![p].err = e,
                                                ![p].pc = "inv_fn"]
    /\ UNCHANGED << groups, mu, router, ncalls, arrays,
                    users, reply >>

\* if err = bind(&params); err != nil { return }: on an error the closure
\* returns its named results, the zero Response and err
InvokeBind(p) ==
    /\ proc[p].pc = "inv_bind"
    /\ LET ptr == proc[p].params
           e   == proc[p].bind.err
       IN  /\ heap' = [heap EXCEPT ![ptr] = Filled(heap[ptr], proc[p].bind.writes)]
           /\ trace' = Append(trace, [kind |-> "bind", call |-> proc[p].call,
                                      ptr |-> ptr, err |-> e,
                                      writes |-> proc[p].bind.writes])
           /\ IF BindFailed(e)
              THEN /\ done' = done \cup {Returned(p, ZeroResponse, e)}
                   /\ proc' = [proc EXCEPT ![p] = Idle]
              ELSE /\ done' = done
                   /\ proc' = [proc EXCEPT ![p].err = e, ![p].pc = "inv_fn"]
    /\ UNCHANGED << groups, mu, router, ncalls, arrays,
                    users, reply >>

\* variant: the error fn returned is dropped
FnReturnDropsErr(res) == [resp |-> res.resp, err |-> Nil]

\* what the closure returns after fn returned res
FnReturn(res) == res

\* return fn(ctx, &params)
InvokeFn(p) ==
    /\ proc[p].pc = "inv_fn"
    /\ LET ptr == proc[p].params
           res == FnResult(proc[p].api.fn, proc[p].ctx, heap[ptr])
           ret == FnReturn(res)
       IN  /\ trace' = Append(trace, [kind |-> "fn", call |-> proc[p].call,
                                      fn |-> proc[p].api.fn,
                                      ctx |-> proc[p].ctx, ptr |-> ptr,
                                      params |-> heap[ptr],
                                      resp |-> res.resp, err |-> res.err])
           /\ done' = done \cup {Returned(p, ret.resp, ret.err)}
           /\ proc' = [proc EXCEPT ![p] = Idle]
    /\ UNCHANGED << groups, mu, router, ncalls, heap, arrays,
                    users, reply >>

\* variant: Params hands back the parameters bound last
ParamsValueLast(h, hp) == IF hp = << >> THEN ZeroParams ELSE hp[Len(hp)]

\* HandlerFunc.Params: var zero Params; return zero. hp, the parameter
\* instances that exist, plays no part
ParamsValue(h, hp) == ZeroParams

\* HandlerFunc.Response: var zero Response; return zero
ResponseValue(h) == ZeroResponse

\* a caller (a documentation generator, say) calls h.Params(), which
\* returns the zero Params converted to any
ParamsCall(p, h) ==
    /\ FirstIdle(p)
    /\ ncalls < MaxInvokes
    /\ ncalls' = ncalls + 1
    /\ done' = done \cup {[call |-> ncalls + 1, op |-> "Params",
                            fn |-> h.fn,
                            resp |-> [type |-> "Params",
                                      value |-> ParamsValue(h, heap)]]}
    /\ UNCHANGED << groups, mu, router, proc, trace, heap, arrays,
                    users, reply >>

\* a caller calls h.Response(), which returns the zero Response converted
\* to any
ResponseCall(p, h) ==
    /\ FirstIdle(p)
    /\ ncalls < MaxInvokes
    /\ ncalls' = ncalls + 1
    /\ done' = done \cup {[call |-> ncalls + 1, op |-> "Response",
                            fn |-> h.fn,
                            resp |-> ToAny(ResponseValue(h))]}
    /\ UNCHANGED << groups, mu, router, proc, trace, heap, arrays,
                    users, reply >>

Next ==
    \/ \E p \in Procs : \E a \in RegisterArgs : RegisterCall(p, a)
    \/ \E p \in Procs : RegisterLock(p)
    \/ \E p \in Procs : RegisterRead(p)
    \/ \E p \in Procs : RegisterWrite(p)
    \/ \E p \in Procs : RegisterUnlock(p)
    \/ \E p \in Procs : \E r \in Resolvers : BindCall(p, r)
    \/ \E p \in Procs : BindLock(p)
    \/ \E p \in Procs : BindRange(p)
    \/ \E p \in Procs : GroupResolve(p)
    \/ \E p \in Procs : GroupRegister(p)
    \/ \E p \in Procs : GroupPanic(p)
    \/ \E p \in Procs : BindUnlock(p)

Spec == Init /\ [][Next]_vars

\* no call is in progress
AllIdle == \A q \in Procs : proc[q].pc = "idle"

\* startup wiring done by one caller: it enters Groups.Register(groups...)
\* once its previous call is over
SeqRegisterCall(p, a) ==
    /\ AllIdle
    /\ FirstIdle(p)
    /\ ncalls < MaxSeqCalls
    /\ ncalls' = ncalls + 1
    /\ proc' = [proc EXCEPT ![p] = [Idle EXCEPT !.pc = "reg_lock",
                                                !.call = ncalls + 1,
                                                !.args = a]]
    /\ UNCHANGED << groups, mu, router, trace, done, heap, arrays,
                    users, reply >>

\* the single caller enters Groups.Bind(router, bind) once its previous
\* call is over
SeqBindCall(p, r) ==
    /\ AllIdle
    /\ FirstIdle(p)
    /\ ncalls < MaxSeqCalls
    /\ ncalls' = ncalls + 1
    /\ proc' = [proc EXCEPT ![p] = [Idle EXCEPT !.pc = "bind_lock",
                                                !.call = ncalls + 1,
                                                !.bind = r]]
    /\ UNCHANGED << groups, mu, router, trace, done, heap, arrays,
                    users, reply >>

NextSeq ==
    \/ \E p \in Procs : \E a \in RegisterArgs : SeqRegisterCall(p, a)
    \/ \E p \in Procs : RegisterLock(p)
    \/ \E p \in Procs : RegisterRead(p)
    \/ \E p \in Procs : RegisterWrite(p)
    \/ \E p \in Procs : RegisterUnlock(p)
    \/ \E p \in Procs : \E r \in SeqResolvers : SeqBindCall(p, r)
    \/ \E p \in Procs : BindLock(p)
    \/ \E p \in Procs : BindRange(p)
    \/ \E p \in Procs : GroupResolve(p)
    \/ \E p \in Procs : GroupRegister(p)
    \/ \E p \in Procs : GroupPanic(p)
    \/ \E p \in Procs : BindUnlock(p)

\* the registry driven by one caller, call after call
SpecSeq == Init /\ [][NextSeq]_vars

NextReentrant ==
    \/ \E p \in Procs : \E a \in RegisterArgs \cup ReentrantArgs :
          SeqRegisterCall(p, a)
    \/ \E p \in Procs : RegisterLock(p)
    \/ \E p \in Procs : RegisterRead(p)
    \/ \E p \in Procs : RegisterWrite(p)
    \/ \E p \in Procs : RegisterUnlock(p)
    \/ \E p \in Procs : \E r \in Resolvers \cup ReentrantResolvers :
          SeqBindCall(p, r)
    \/ \E p \in Procs : BindLock(p)
    \/ \E p \in Procs : BindRange(p)
    \/ \E p \in Procs : GroupResolve(p)
    \/ \E p \in Procs : EntryIsGroups(p)
    \/ \E p \in Procs : ResolverCallsBack(p)
    \/ \E p \in Procs : GroupRegister(p)
    \/ \E p \in Procs : GroupPanic(p)
    \/ \E p \in Procs : BindUnlock(p)

\* the registry driven by one caller whose resolvers and registry entries
\* may call back into the registry; a caller that can take a step
\* eventually takes one
SpecReentrant == Init /\ [][NextReentrant]_vars /\ WF_vars(NextReentrant)

\* the handlers callers invoke: built by Register around a business function
InvokeHandlers == {HandlerOf(fn, "d1") : fn \in InvokeFns}

NextInvoke ==
    \/ \E p \in Procs : \E h \in InvokeHandlers : \E c \in Contexts :
          \E r \in ParamResolvers : InvokeCall(p, h, c, r)
    \/ \E p \in Procs : InvokeBind(p)
    \/ \E p \in Procs : InvokeFn(p)
    \/ \E p \in Procs : \E h \in InvokeHandlers : ParamsCall(p, h)
    \/ \E p \in Procs : \E h \in InvokeHandlers : ResponseCall(p, h)

SpecInvoke == Init /\ [][NextInvoke]_vars

(* ------------------ InMemoryUserRepository, UserService ---------------- *)

\* Create's loop over r.users: a stored user has the username or the e-mail
\* address of user
Taken(us, user) ==
    \E i \in DOMAIN us :
        us[i].username = user.username \/ us[i].email = user.email

\* r.users[user.ID] = user
Put(us, user) ==
    [i \in DOMAIN us \cup {user.id} |-> IF i = user.id THEN user ELSE us[i]]

\* InMemoryUserRepository.Create
Create(user) ==
    /\ users' = IF Taken(users, user) THEN users ELSE Put(users, user)
    /\ reply' = [op |-> "Create", user |-> user, before |-> users,
                 err |-> IF Taken(users, user)
                         THEN "ErrUserAlreadyExists" ELSE Nil]
    /\ UNCHANGED << groups, mu, router, proc, ncalls, trace, done, heap,
                    arrays >>

\* InMemoryUserRepository.Update
Update(user) ==
    /\ users' = IF user.id \in DOMAIN users THEN Put(users, user) ELSE users
    /\ reply' = [op |-> "Update", user |-> user, before |-> users,
                 err |-> IF user.id \in DOMAIN users
                         THEN Nil ELSE "ErrUserNotFound"]
    /\ UNCHANGED << groups, mu, router, proc, ncalls, trace, done, heap,
                    arrays >>

\* User.UpdateProfile, on the e-mail address
UpdateProfile(u, email) == IF email # "" THEN [u EXCEPT !.email = email] ELSE u

\* UserService.UpdateUser: FindByID hands out the stored user itself,
\* UpdateProfile edits it in place, and Update stores it under its ID
UpdateUser(id, email) ==
    /\ users' = IF id \in DOMAIN users
                THEN Put(users, UpdateProfile(users[id], email))
                ELSE users
    /\ reply' = [op |-> "UpdateUser", id |-> id, email |-> email,
                 before |-> users,
                 err |-> IF id \in DOMAIN users
                         THEN Nil ELSE "ErrUserNotFound"]
    /\ UNCHANGED << groups, mu, router, proc, ncalls, trace, done, heap,
                    arrays >>

\* InMemoryUserRepository.Delete
Delete(id) ==
    /\ users' = IF id \in DOMAIN users
                THEN [i \in DOMAIN users \ {id} |-> users[i]]
                ELSE users
    /\ reply' = [op |-> "Delete", id |-> id, before |-> users,
                 err |-> IF id \in DOMAIN users
                         THEN Nil ELSE "ErrUserNotFound"]
    /\ UNCHANGED << groups, mu, router, proc, ncalls, trace, done, heap,
                    arrays >>

\* InMemoryUserRepository.List: the users are collected in the order the map
\* is ranged over, which is any order, so the page is any end - start of
\* them; when the slice expression panics the call does not return
List(limit, offset) ==
    LET n == Cardinality(DOMAIN users)
        b == ListBounds(n, limit, offset)
    IN  /\ \E page \in SUBSET (DOMAIN users) :
               /\ Cardinality(page) =
                      IF b.panics THEN 0 ELSE b.end.off - b.start.off
               /\ reply' = [op |-> "List", limit |-> limit,
                            offset |-> offset, n |-> n,
                            start |-> b.start, end |-> b.end,
                            panics |-> b.panics, page |-> page]
        /\ UNCHANGED << groups, mu, router, proc, ncalls, trace, done, heap,
                        arrays, users >>

NextRepo ==
    \/ \E u \in Users : Create(u)
    \/ \E u \in Users : Update(u)
    \/ \E i \in UserIds : \E e \in Emails \cup {""} : UpdateUser(i, e)
    \/ \E i \in UserIds : Delete(i)
    \/ \E l \in ListArgs : \E o \in ListArgs : List(l, o)

SpecRepo == Init /\ [][NextRepo]_vars

(* ======================= properties of Groups ========================== *)

\* positions of the trace
Pos == 1..Len(trace)

\* a resolver call or a Router registration made inside Groups.Bind
IsBindStep(e) == e.kind \in {"resolve", "register"}

\* the position at which call c acquired the mutex
LockPos(c) == CHOOSE i \in Pos : trace[i].kind = "lock" /\ trace[i].call = c

HasLocked(c) == \E i \in Pos : trace[i].kind = "lock" /\ trace[i].call = c

\* the registry as call c found it when it acquired the mutex
RegAtLock(c) == trace[LockPos(c)].reg

\* the registration the k-th route of group g makes on the concrete Router
RouteMatches(reg, g, k) ==
    /\ reg.method = GroupRoutes(g)[k].method
    /\ reg.path = GroupRoutes(g)[k].path
    /\ reg.api.fn = GroupRoutes(g)[k].fn

\* C1: fail-fast without rollback. When Groups.Bind returned an error, that
\* error is the one the first failing entry's resolver returned; every
\* route of the entries before it is on the Router; the failing entry's
\* registration function made no registration; and no resolver call or
\* registration was made for any entry after it.
FailFastNoRollback ==
    \A d \in done : (d.op = "Bind" /\ d.err # Nil) =>
        \E f \in Pos :
            /\ trace[f].kind = "resolve"
            /\ trace[f].call = d.call
            /\ trace[f].err = d.err
            /\ \A i \in Pos \ {f} :
                   (IsBindStep(trace[i]) /\ trace[i].call = d.call) =>
                       /\ i < f
                       /\ trace[i].idx < trace[f].idx
                       /\ trace[i].kind = "resolve" => trace[i].err = Nil
            /\ \A j \in 1..(trace[f].idx - 1) :
                   \A k \in 1..Len(GroupRoutes(RegAtLock(d.call)[j].b)) :
                       \E i \in Pos :
                           /\ trace[i].kind = "register"
                           /\ trace[i].call = d.call
                           /\ trace[i].idx = j
                           /\ trace[i].k = k
                           /\ trace[i].at <= Len(router)
                           /\ RouteMatches(router[trace[i].at],
                                           RegAtLock(d.call)[j].b, k)

\* a Bind over [A, B, C] that registered A's two routes, failed on B and
\* has returned
FailFastWitness ==
    \E d \in done :
        /\ d.op = "Bind"
        /\ d.err = "errB"
        /\ Len(RegAtLock(d.call)) = 3
        /\ RegAtLock(d.call)[2].b = "B"
        /\ Cardinality({i \in Pos : trace[i].kind = "register"
                                     /\ trace[i].call = d.call}) = 2

\* C2: within one Groups.Bind call the i-th iteration binds the i-th entry
\* of the registry; the steps of an earlier entry all come before the steps
\* of a later one; and an entry's resolver is called once, before any of
\* its registrations.
BindsInInsertionOrder ==
    \A i \in Pos : IsBindStep(trace[i]) =>
        /\ trace[i].idx <= Len(groups)
        /\ trace[i].entry = groups[trace[i].idx]
        /\ \A j \in Pos :
               (j > i /\ IsBindStep(trace[j])
                      /\ trace[j].call = trace[i].call) =>
                   /\ trace[i].idx <= trace[j].idx
                   /\ trace[j].kind = "resolve" =>
                          trace[i].idx < trace[j].idx

\* a Bind that went through three entries and returned nil
InsertionOrderWitness ==
    \E d \in done :
        /\ d.op = "Bind"
        /\ d.err = Nil
        /\ Cardinality({i \in Pos : trace[i].kind = "resolve"
                                     /\ trace[i].call = d.call}) = 3

\* the Register calls that have returned
Registered == {d \in done : d.op = "Register"}

\* the callers inside Groups.Register
InRegister(p) ==
    proc[p].pc \in {"reg_lock", "reg_read", "reg_write", "reg_unlock"}

\* Register call c has stored its append
HasAppended(c) ==
    \/ \E d \in Registered : d.call = c
    \/ \E p \in Procs : proc[p].call = c /\ proc[p].pc = "reg_unlock"

\* the arguments of Register call c
ArgsOf(c) ==
    IF \E d \in Registered : d.call = c
    THEN (CHOOSE d \in Registered : d.call = c).args
    ELSE IF \E p \in Procs : proc[p].call = c /\ InRegister(p)
         THEN proc[CHOOSE p \in Procs : proc[p].call = c].args
         ELSE << >>

\* the entries of a registry content that call c appended, in order
Block(reg, c) ==
    LET ByCall(e) == e.call = c
    IN  SelectSeq(reg, ByCall)

IsPrefix(s, t) == Len(s) <= Len(t) /\ \A i \in 1..Len(s) : s[i] = t[i]

\* the registry is made of whole argument lists, in lock-acquisition order
WholeBlocksInLockOrder ==
    /\ \A c \in 1..ncalls :
           Block(groups, c) = IF HasAppended(c) THEN Tagged(ArgsOf(c), c)
                                                ELSE << >>
    /\ \A i \in 1..Len(groups) : \A j \in 1..Len(groups) :
           (i < j /\ groups[i].call # groups[j].call) =>
               LockPos(groups[i].call) < LockPos(groups[j].call)

\* C3: Groups.Register appends atomically and in order. The groups of one
\* Register call sit in the registry contiguously and in argument order,
\* the calls' blocks follow each other in the order the calls acquired the
\* mutex, and no step reorders or removes an existing entry.
RegisterAppendsAtomically ==
    /\ []WholeBlocksInLockOrder
    /\ [][IsPrefix(groups, groups')]_vars

\* two overlapping Register calls have both returned: the one made first
\* acquired the mutex second, and its two groups sit behind the other's
RegisterAtomicWitness ==
    \E d1 \in Registered : \E d2 \in Registered :
        /\ d1.call < d2.call
        /\ LockPos(d2.call) < LockPos(d1.call)
        /\ Len(d1.args) = 2
        /\ Len(groups) >= 3

RECURSIVE SumArgs(_)
\* total number of groups passed to a set of Register calls
SumArgs(ds) ==
    IF ds = {} THEN 0
    ELSE LET d == CHOOSE x \in ds : TRUE
         IN  Len(d.args) + SumArgs(ds \ {d})

\* the entries a Bind call resolved successfully
Bound(c) ==
    {i \in Pos : trace[i].kind = "resolve" /\ trace[i].call = c
                                           /\ trace[i].err = Nil}

\* C4: no lost appends. Once every Register call made so far has returned,
\* the registry holds exactly the groups passed to them, each call's groups
\* once; and a Bind that returned nil bound as many entries as the Register
\* calls that acquired the mutex before it had been given.
NoLostAppends ==
    /\ (\A p \in Procs : ~InRegister(p)) =>
           /\ Len(groups) = SumArgs(Registered)
           /\ \A d \in Registered :
                  Cardinality({i \in 1..Len(groups) :
                                  groups[i].call = d.call}) = Len(d.args)
    /\ \A d \in done : (d.op = "Bind" /\ d.err = Nil) =>
           Cardinality(Bound(d.call)) =
               SumArgs({r \in Registered :
                           LockPos(r.call) < LockPos(d.call)})

\* two overlapping one-group Register calls returned, then a Bind was made
\* and bound exactly their two groups
NoLostAppendsWitness ==
    \E r1 \in Registered : \E r2 \in Registered : \E d \in done :
        /\ r1.call < r2.call
        /\ LockPos(r2.call) < LockPos(r1.call)
        /\ Len(r1.args) = 1 /\ Len(r2.args) = 1
        /\ d.op = "Bind" /\ d.err = Nil
        /\ d.call > r1.after /\ d.call > r2.after
        /\ Cardinality(Bound(d.call)) = 2
        /\ Len(groups) = 2

\* the callers inside the pass of Groups.Bind, after the range expression
\* was evaluated
InPass(p) == proc[p].pc \in {"group_bind", "group_register", "bind_unlock"}

\* C5: binding is atomic with respect to registrations. From the moment a
\* Bind call acquires the mutex until it releases it the registry does not
\* change; the entries the pass iterates are exactly the registry content
\* at that moment; and every Register call has either all of its groups or
\* none of them in that content.
BindAtomicWrtRegister ==
    /\ \A p \in Procs :
           /\ proc[p].pc = "bind_range" => groups = RegAtLock(proc[p].call)
           /\ InPass(p) => /\ groups = RegAtLock(proc[p].call)
                           /\ proc[p].rng = RegAtLock(proc[p].call)
    /\ \A i \in Pos : IsBindStep(trace[i]) =>
           /\ trace[i].idx <= Len(RegAtLock(trace[i].call))
           /\ trace[i].entry = RegAtLock(trace[i].call)[trace[i].idx]
    /\ \A d \in done : (d.op = "Bind" /\ d.err = Nil) =>
           \A n \in 1..Len(RegAtLock(d.call)) :
               \E i \in Bound(d.call) : trace[i].idx = n
    /\ \A i \in Pos : (trace[i].kind = "lock" /\ trace[i].op = "Bind") =>
           \A c \in 1..ncalls :
               \/ Block(trace[i].reg, c) = << >>
               \/ Block(trace[i].reg, c) = Tagged(ArgsOf(c), c)

\* a Bind pass is under way over a non-empty registry while a Register call
\* made before that Bind call is still waiting for the mutex
BindAtomicWitness ==
    \E p \in Procs : \E q \in Procs :
        /\ proc[p].pc = "group_register"
        /\ proc[p].idx >= 2
        /\ proc[q].pc = "reg_lock"
        /\ proc[q].call < proc[p].call

\* the calls whose bind steps appear in the trace, in trace order
BindStepCalls ==
    LET bs == SelectSeq(trace, IsBindStep)
    IN  [n \in 1..Len(bs) |-> bs[n].call]

\* the calls that made the Router's registrations, in Router order
RouterCalls ==
    [n \in 1..Len(router) |->
        trace[CHOOSE i \in Pos : trace[i].kind = "register"
                                 /\ trace[i].at = n].call]

\* once a sequence has moved on from a call, that call never comes back
InRuns(cs) ==
    \A j \in 1..(Len(cs) - 1) : cs[j] # cs[j + 1] =>
        \A k \in (j + 2)..Len(cs) : cs[k] # cs[j]

\* C6: concurrent Groups.Bind calls are serialized. The resolver calls and
\* registrations of one call form one uninterrupted run, and so do its
\* registrations on the Router.
BindCallsSerialized ==
    /\ InRuns(BindStepCalls)
    /\ InRuns(RouterCalls)

\* two overlapping Bind calls have both registered routes: the one made
\* first acquired the mutex second
BindSerializedWitness ==
    \E i \in Pos : \E j \in Pos :
        /\ trace[i].kind = "register" /\ trace[j].kind = "register"
        /\ trace[i].call < trace[j].call
        /\ LockPos(trace[j].call) < LockPos(trace[i].call)

\* C7 as stated: Groups.Bind binds the entries in the order in which the
\* Register calls that appended them were made.
EntriesInCallOrder ==
    \A i \in Pos : \A j \in Pos :
        (i < j /\ trace[i].kind = "resolve" /\ trace[j].kind = "resolve"
               /\ trace[i].call = trace[j].call) =>
            trace[i].entry.call <= trace[j].entry.call

\* C7 amended: Groups.Bind binds the entries in the order in which the
\* Register calls that appended them acquired the mutex; the groups of a
\* Register call that had returned before another one was made are bound
\* before that other call's groups.
EntriesInLockOrder ==
    \A i \in Pos : \A j \in Pos :
        (trace[i].kind = "resolve" /\ trace[j].kind = "resolve"
            /\ trace[i].call = trace[j].call) =>
            /\ (i < j /\ trace[i].entry.call # trace[j].entry.call) =>
                   LockPos(trace[i].entry.call) < LockPos(trace[j].entry.call)
            /\ \A r \in Registered :
                   (trace[i].entry.call = r.call
                       /\ trace[j].entry.call > r.after) => i < j

\* Register(A, B) was made first, Register(C) from the other caller second,
\* and a later Bind bound C, then A, then B
LockOrderWitness ==
    \E d \in done :
        /\ d.op = "Bind"
        /\ d.err = Nil
        /\ RegAtLock(d.call) = << [b |-> "C", call |-> 2],
                                  [b |-> "A", call |-> 1],
                                  [b |-> "B", call |-> 1] >>
        /\ Cardinality(Bound(d.call)) = 3

(* ==================== properties of a route group ====================== *)

\* the trace positions of kind kd that belong to entry n of Bind call c
StepsOf(kd, c, n) ==
    {i \in Pos : trace[i].kind = kd /\ trace[i].call = c /\ trace[i].idx = n}

\* Bind call c has come out of its pass with error e
CameOutWith(c, e) ==
    \/ \E p \in Procs : /\ proc[p].call = c
                        /\ proc[p].pc = "bind_unlock"
                        /\ proc[p].err = e
    \/ \E d \in done : d.call = c /\ d.op = "Bind" /\ d.err = e

\* C11: when the resolver given to RouterGroup.Bind returned an error, the
\* group's registration function was not invoked, no registration reached
\* the Router for that group in that call, and the call came back with
\* that very error.
ResolverFailureRegistersNothing ==
    \A f \in Pos : (trace[f].kind = "resolve" /\ trace[f].err # Nil) =>
        /\ StepsOf("regfn", trace[f].call, trace[f].idx) = {}
        /\ StepsOf("register", trace[f].call, trace[f].idx) = {}
        /\ StepsOf("panic", trace[f].call, trace[f].idx) = {}
        /\ StepsOf("resolve", trace[f].call, trace[f].idx) = {f}
        /\ CameOutWith(trace[f].call, trace[f].err)

\* a Bind has returned errB from group B, whose registration function did
\* not run, after the registration function of A had run in the same call
ResolverFailureWitness ==
    \E f \in Pos : \E d \in done :
        /\ trace[f].kind = "resolve"
        /\ trace[f].entry.b = "B"
        /\ trace[f].err = "errB"
        /\ d.call = trace[f].call /\ d.op = "Bind" /\ d.err = "errB"
        /\ \E i \in Pos : /\ i < f
                          /\ trace[i].kind = "regfn"
                          /\ trace[i].call = d.call
                          /\ trace[i].entry.b = "A"

\* C12: when the resolver given to RouterGroup.Bind returned nil, it was
\* called once for that entry and right after it the registration function
\* was invoked, once, with a decorator holding the options DefineGroup was
\* given and with the value the resolver left in the slot, which every
\* handler registered for the entry carries; the pass goes on with a nil
\* error; and a Bind that returned did so with an error exactly when one of
\* its resolver calls returned one.
ResolverSuccessRegistersOnce ==
    /\ \A f \in Pos : (trace[f].kind = "resolve" /\ trace[f].err = Nil) =>
           /\ StepsOf("resolve", trace[f].call, trace[f].idx) = {f}
           /\ StepsOf("regfn", trace[f].call, trace[f].idx) = {f + 1}
           /\ trace[f + 1].dep = trace[f].slot
           /\ trace[f + 1].options = GroupOptions(trace[f].entry.b)
           /\ \A i \in StepsOf("register", trace[f].call, trace[f].idx) :
                  /\ i > f + 1
                  /\ router[trace[i].at].api.dep = trace[f].slot
    /\ \A p \in Procs : proc[p].pc \in {"group_bind", "group_register"} =>
           proc[p].err = Nil
    /\ \A d \in done : d.op = "Bind" =>
           (d.err # Nil <=> \E f \in Pos : /\ trace[f].kind = "resolve"
                                           /\ trace[f].call = d.call
                                           /\ trace[f].err # Nil)

\* a Bind has returned nil after the registration function of A ran with
\* the slot its resolver had left at the zero value and that of B with the
\* dependency its resolver had stored; both A's routes carry the zero value
ResolverSuccessWitness ==
    \E d \in done : \E i \in Pos : \E j \in Pos :
        /\ d.op = "Bind" /\ d.err = Nil
        /\ trace[i].kind = "regfn" /\ trace[i].call = d.call
        /\ trace[i].entry.b = "A" /\ trace[i].dep = Zero
        /\ trace[j].kind = "regfn" /\ trace[j].call = d.call
        /\ trace[j].entry.b = "B" /\ trace[j].dep = "d1"
        /\ Cardinality({n \in 1..Len(router) :
                           router[n].api.dep = Zero
                           /\ router[n].api.fn \in {"a1", "a2"}}) = 2

\* the registrations registerFn has made
Registrations == {i \in Pos : trace[i].kind = "register"}

\* C13: every Register call of a registration function hands the Router it
\* was given the method, the path and the option maps exactly as written
\* and a Handler around fn; it makes that one call, so the Router holds one
\* registration per Register call; and registering calls no business
\* function and no request resolver and allocates no parameters.
RegisterPassesThrough ==
    /\ \A i \in Registrations :
           LET rt == GroupRoutes(trace[i].entry.b)[trace[i].k]
           IN  /\ trace[i].given.method = rt.method
               /\ trace[i].given.path = rt.path
               /\ trace[i].given.options = rt.options
               /\ trace[i].given.api.fn = rt.fn
               /\ trace[i].at <= Len(router)
               /\ router[trace[i].at].method = rt.method
               /\ router[trace[i].at].path = rt.path
               /\ \A j \in Registrations :
                      (trace[j].call = trace[i].call
                          /\ trace[j].idx = trace[i].idx
                          /\ trace[j].k = trace[i].k) => j = i
    /\ \A n \in 1..Len(router) :
           Cardinality({i \in Registrations : trace[i].at = n}) = 1
    /\ \A i \in Pos : trace[i].kind \notin {"bind", "fn"}
    /\ heap = << >>

\* the route "get" "c1/" of group C has reached the Router as written
RegisterPassesThroughWitness ==
    \E i \in Registrations :
        /\ trace[i].entry.b = "C"
        /\ trace[i].given.method = "get"
        /\ router[trace[i].at].method = "get"
        /\ router[trace[i].at].path = "c1/"
        /\ router[trace[i].at].options = << [z |-> "3"] >>

KeysOf(options) == UNION {DOMAIN options[i] : i \in 1..Len(options)}

\* the position of the last map of the sequence that has key k
LastWith(options, k) ==
    CHOOSE i \in 1..Len(options) :
        /\ k \in DOMAIN options[i]
        /\ \A j \in (i + 1)..Len(options) : k \notin DOMAIN options[j]

\* C15: the adapter's mergeOptions flattens the option maps a registration
\* arrived with into one map that has every key of every map, each with the
\* value of the last map that has it: the group options x=0, y=2 followed by
\* the route option x=1 give x=1, y=2.
OptionMergeLastWins ==
    \A n \in 1..Len(router) :
        LET opts == router[n].options
            m == router[n].merged
        IN  /\ DOMAIN m = KeysOf(opts)
            /\ \A k \in KeysOf(opts) : m[k] = opts[LastWith(opts, k)][k]
            /\ opts = << [x |-> "0", y |-> "2"], [x |-> "1"] >> =>
                   (m["x"] = "1" /\ m["y"] = "2" /\ DOMAIN m = {"x", "y"})

\* the first route of A has reached the Router and its merged options are
\* x=1, y=2; B's route is there too, merged from two maps without a shared
\* key
OptionMergeWitness ==
    \E a \in 1..Len(router) : \E b \in 1..Len(router) :
        /\ router[a].path = "/a1"
        /\ Len(router[a].options) = 2
        /\ router[a].merged["x"] = "1"
        /\ router[a].merged["y"] = "2"
        /\ router[b].path = "/b1"
        /\ DOMAIN router[b].merged = {"p", "x"}

\* C16: a group's options are fixed at construction. Whatever Binds and
\* registrations have gone through its decorators, the slice DefineGroup
\* captured still holds the option maps it was given; every decorator and
\* every registration starts from exactly those, also in the slice the
\* Router was handed as it reads now; and a decorator's options are the
\* same before each of its Register calls.
GroupOptionsFixed ==
    /\ \A g \in GroupIds : SliceValue(arrays, GroupSlice(g)) = GroupOptions(g)
    /\ \A i \in Pos : trace[i].kind = "regfn" =>
           trace[i].options = GroupOptions(trace[i].entry.b)
    /\ \A i \in Registrations :
           LET grp == GroupOptions(trace[i].entry.b)
               got == router[trace[i].at]
               now == SliceValue(arrays, got.slice)
           IN  /\ Len(got.options) = Len(grp) + Len(trace[i].given.options)
               /\ SubSeq(got.options, 1, Len(grp)) = grp
               /\ SubSeq(now, 1, Len(grp)) = grp
    /\ \A p \in Procs : proc[p].pc = "group_register" =>
           proc[p].opts = GroupSlice(Entry(proc[p].rng, proc[p].idx).b)

\* group A has been bound by two Bind calls: the options of its routes
\* were appended into the spare element of the captured slice's array
\* each time, and the second Bind's routes arrived with the group option
\* in front
GroupOptionsFixedWitness ==
    \E i \in Registrations : \E j \in Registrations :
        /\ trace[i].call < trace[j].call
        /\ trace[i].entry.b = "A" /\ trace[j].entry.b = "A"
        /\ trace[i].k = 1 /\ trace[j].k = 2
        /\ arrays[1] = << [x |-> "0", y |-> "2"], [w |-> "5"] >>
        /\ router[trace[j].at].options =
               << [x |-> "0", y |-> "2"], [w |-> "5"] >>

\* the callers inside Groups.Bind
InBind(p) ==
    proc[p].pc \in {"bind_lock", "bind_range", "group_bind",
                    "group_register", "bind_unlock"}

\* every entry of the registry Bind call c found has had its resolver
\* called once and each of its routes registered once in that call
BoundAll(c) ==
    \A n \in 1..Len(RegAtLock(c)) :
        /\ Cardinality(StepsOf("resolve", c, n)) = 1
        /\ \A k \in 1..Len(GroupRoutes(RegAtLock(c)[n].b)) :
               \E i \in StepsOf("register", c, n) :
                   /\ trace[i].k = k
                   /\ RouteMatches(router[trace[i].at], RegAtLock(c)[n].b, k)
                   /\ \A j \in StepsOf("register", c, n) :
                          trace[j].k = k => j = i

\* C17: Groups.Bind never changes the registry and may be called again. No
\* step of a Bind call changes the registry, whether the call goes on to
\* succeed or to fail; a Bind that returned left the registry as it found
\* it unless a Register call has appended since; and every Bind that
\* returned nil bound the whole registry it found, whatever earlier Binds
\* had done, each call registering every route once more.
BindLeavesRegistry ==
    /\ [](\A d \in done : (d.op = "Bind" /\ d.err = Nil) => BoundAll(d.call))
    /\ [](\A d \in done : d.op = "Bind" => IsPrefix(RegAtLock(d.call), groups))
    /\ [][\A p \in Procs :
             ((InBind(p) \/ proc'[p].pc = "bind_lock") /\ proc'[p] # proc[p])
                 => groups' = groups]_vars

\* two Bind calls over the registry [A, B] have returned nil and every one
\* of the three routes is on the Router twice; the registry still is [A, B]
BindTwiceWitness ==
    \E d \in done : \E e \in done :
        /\ d.op = "Bind" /\ e.op = "Bind"
        /\ d.call < e.call
        /\ d.err = Nil /\ e.err = Nil
        /\ Len(groups) = 2
        /\ RegAtLock(d.call) = groups /\ RegAtLock(e.call) = groups
        /\ Len(router) = 6
        /\ \A n \in 1..3 : router[n].path = router[n + 3].path

\* the Bind calls that acquired the mutex, returned or not
BindLocks == {i \in Pos : trace[i].kind = "lock" /\ trace[i].op = "Bind"}

\* C18: Groups.Register is accepted in every state of the registry, also
\* after Bind calls. With no call in progress the mutex is free; a Register
\* call that returned has its groups in the registry behind the entries of
\* every call that acquired the mutex before it, whether or not a Bind came
\* in between; a Bind binds no group that was registered after it acquired
\* the mutex; and a Bind that returned nil bound, in registry order, the
\* groups of every Register call that acquired the mutex before it.
RegisterAfterBind ==
    /\ AllIdle => mu = 0
    /\ \A r \in Registered :
           /\ Block(groups, r.call) = Tagged(r.args, r.call)
           /\ \A i \in 1..Len(groups) : \A j \in 1..Len(groups) :
                  (groups[j].call = r.call /\ groups[i].call # r.call) =>
                      (i < j <=> LockPos(groups[i].call) < LockPos(r.call))
           /\ \A b \in BindLocks :
                  Block(trace[b].reg, r.call) =
                      IF LockPos(r.call) < b THEN Tagged(r.args, r.call)
                                             ELSE << >>
    /\ \A i \in Pos : trace[i].kind \in {"resolve", "regfn", "register"} =>
           LockPos(trace[i].entry.call) < LockPos(trace[i].call)
    /\ \A d \in done : (d.op = "Bind" /\ d.err = Nil) =>
           \A n \in 1..Len(RegAtLock(d.call)) :
               /\ \E i \in StepsOf("resolve", d.call, n) :
                      trace[i].entry = RegAtLock(d.call)[n]
               /\ \A m \in 1..(n - 1) :
                      \A i \in StepsOf("resolve", d.call, m) :
                          \A j \in StepsOf("resolve", d.call, n) : i < j

\* Register(A, B), a Bind that returned nil having bound A and B, then
\* Register(C), which put C third, then a second Bind that returned nil
\* having bound A, B and C in that order; the first Bind never touched C
RegisterAfterBindWitness ==
    \E d \in done : \E e \in done : \E r \in Registered :
        /\ d.op = "Bind" /\ d.err = Nil
        /\ e.op = "Bind" /\ e.err = Nil
        /\ d.call < r.call /\ r.call < e.call
        /\ r.args = << "C" >>
        /\ Len(RegAtLock(d.call)) = 2
        /\ Len(groups) = 3 /\ groups[3].b = "C"
        /\ StepsOf("resolve", d.call, 3) = {}
        /\ \A n \in 1..3 : \E i \in StepsOf("resolve", e.call, n) :
               trace[i].entry.b = groups[n].b /\ trace[i].err = Nil

\* C20: all failures are returned, never panicked. Every call of
\* Groups.Bind, and with it of RouterGroup.Bind, that has ended has ended by
\* returning, whether its resolver failed, filled the slot or returned nil
\* and left the slot at its zero value: no call was ended by a panic.
FailuresAreReturned ==
    /\ \A d \in done : d.op \in {"Register", "Bind"}
    /\ \A i \in Pos : trace[i].kind # "panic"

\* C22: registrations through one decorator do not disturb each other. The
\* slice the inner Router was handed for a registration reads, in every
\* later state, the group's options followed by that route's options; and
\* the backing array of the slice DefineGroup was given is never written.
RegistrationsUndisturbed ==
    /\ \A i \in Registrations :
           SliceValue(arrays, router[trace[i].at].slice) =
               GroupOptions(trace[i].entry.b) \o trace[i].given.options
    /\ \A g \in GroupIds : GroupArr(g) # 0 =>
           arrays[GroupArr(g)] = GroupArrays[GroupArr(g)]

\* the numbers calls can have when each call of the caller makes at most
\* one call of its own
CallIds == 1..(2 * MaxSeqCalls)

\* call c is under way and is not waiting for a resolver, a registration
\* function or an entry of its own to return
Running(c) == \E p \in Procs : proc[p].call = c /\ proc[p].pc # "idle"

\* C23: Groups.Register and Groups.Bind always return once everything they
\* run has returned, also when a resolver calls back into the same Groups
\* and when the Groups is an entry of itself: no call stays under way for
\* ever without a resolver, registration function or entry to wait for.
CallsAlwaysReturn == \A c \in CallIds : []<>(~Running(c))

(* ================== properties of the handler adapter ================== *)

\* the resolver calls made by Invoke call c
BindCalls(c) == {i \in Pos : trace[i].kind = "bind" /\ trace[i].call = c}

\* the business-function calls made by Invoke call c
FnCalls(c) == {i \in Pos : trace[i].kind = "fn" /\ trace[i].call = c}

Invoked == {d \in done : d.op = "Invoke"}

\* C8: when the resolver passed to Invoke returned an error, the business
\* function is not called in that invocation and Invoke returns that error.
ResolverErrorSkipsFn ==
    \A i \in Pos : (trace[i].kind = "bind" /\ trace[i].err # Nil) =>
        /\ FnCalls(trace[i].call) = {}
        /\ \E d \in Invoked : d.call = trace[i].call /\ d.err = trace[i].err

\* an Invoke whose resolver wrote one field and then failed has returned
ResolverErrorWitness ==
    \E d \in Invoked : \E i \in BindCalls(d.call) :
        /\ d.err = "errParse"
        /\ d.fn = "a1"
        /\ heap[trace[i].ptr].a = "v1"
        /\ heap[trace[i].ptr].b = Zero

\* C9: when the resolver succeeded, Invoke called the resolver once and then
\* the business function once, with the context Invoke was given and the
\* address the resolver filled, and returned what the function returned.
SuccessReturnsFnResult ==
    \A d \in Invoked :
        /\ Cardinality(BindCalls(d.call)) = 1
        /\ \A i \in BindCalls(d.call) : trace[i].err = Nil =>
               /\ Cardinality(FnCalls(d.call)) = 1
               /\ \A j \in FnCalls(d.call) :
                      /\ i < j
                      /\ trace[j].fn = d.fn
                      /\ trace[j].ctx = d.ctx
                      /\ trace[j].ptr = trace[i].ptr
                      /\ trace[j].params = heap[trace[i].ptr]
                      /\ d.resp = [type |-> "Response",
                                   value |-> trace[j].resp]
                      /\ d.err = trace[j].err

\* an Invoke with a cancelled context whose function returned both a
\* response and an error has returned, and so has one that returned the
\* resolved field with a nil error
SuccessWitness ==
    \E d \in Invoked : \E e \in Invoked :
        /\ d.fn = "b1"
        /\ d.ctx = "ctxCancelled"
        /\ d.err = "errFn"
        /\ d.resp.value.msg = "partial"
        /\ e.fn = "a1"
        /\ e.err = Nil
        /\ e.resp.value.msg = "v1"

\* C10: the error Invoke returns is the resolver's or the business
\* function's, and it is nil exactly when the resolver returned nil and the
\* function was called and returned nil.
NoErrorOfItsOwn ==
    \A d \in Invoked :
        LET bindErrs == {trace[i].err : i \in BindCalls(d.call)}
            fnErrs   == {trace[j].err : j \in FnCalls(d.call)}
        IN  /\ d.err \in bindErrs \cup fnErrs
            /\ (d.err = Nil) <=> (bindErrs = {Nil} /\ fnErrs = {Nil})

\* one Invoke returned the resolver's error and another the function's
NoErrorOfItsOwnWitness ==
    \E d \in Invoked : \E e \in Invoked :
        /\ d.err = "errParse" /\ FnCalls(d.call) = {}
        /\ e.err = "errFn" /\ FnCalls(e.call) # {}

\* the Params() and Response() calls that have returned
Introspected == {d \in done : d.op \in {"Params", "Response"}}

\* C19: Params() and Response() return the zero value of the declared
\* parameter and response type, every time and whatever Invoke calls are
\* under way or over; they call no resolver and no business function; and
\* the step that makes such a call changes nothing but the caller's
\* knowledge of the result.
IntrospectionReturnsZero ==
    /\ [](\A d \in Introspected :
             /\ d.op = "Params" =>
                    d.resp = [type |-> "Params",
                              value |-> [a |-> Zero, b |-> Zero]]
             /\ d.op = "Response" =>
                    d.resp = [type |-> "Response", value |-> [msg |-> Zero]]
             /\ BindCalls(d.call) = {}
             /\ FnCalls(d.call) = {})
    /\ [][(Introspected' # Introspected) =>
             /\ heap' = heap
             /\ trace' = trace
             /\ proc' = proc
             /\ Invoked' = Invoked
             /\ << groups, mu, router, arrays >>' =
                    << groups, mu, router, arrays >>]_vars

\* Params() has returned the zero value although it was called while an
\* Invoke of the same handler was between its resolver, which had filled
\* the parameters, and its business function
IntrospectionWitness ==
    \E d \in Introspected : \E p \in Procs :
        /\ d.op = "Params"
        /\ proc[p].pc = "inv_fn"
        /\ proc[p].call < d.call
        /\ proc[p].api.fn = d.fn
        /\ heap[proc[p].params].a = "v1"
        /\ d.resp.value.a = Zero

\* C21: the core does not look at the context. An Invoke, also one given a
\* cancelled context, calls its resolver once and, when that returned nil,
\* the business function once with the very context it was given; it
\* returns no error but the resolver's or the function's; and two Invokes
\* of one handler whose resolvers returned the same error made the same
\* number of business-function calls whatever their contexts.
CancellationNotObserved ==
    /\ \A d \in Invoked :
           /\ Cardinality(BindCalls(d.call)) = 1
           /\ \A i \in BindCalls(d.call) :
                  /\ trace[i].err # Nil => d.err = trace[i].err
                  /\ trace[i].err = Nil =>
                         \E j \in FnCalls(d.call) :
                             /\ FnCalls(d.call) = {j}
                             /\ trace[j].ctx = d.ctx
                             /\ d.err = trace[j].err
    /\ \A d \in Invoked : \A e \in Invoked :
           (d.fn = e.fn /\ {trace[i].err : i \in BindCalls(d.call)} =
                           {trace[i].err : i \in BindCalls(e.call)}) =>
               Cardinality(FnCalls(d.call)) = Cardinality(FnCalls(e.call))
    /\ \A p \in Procs : proc[p].pc = "inv_fn" =>
           Cardinality(BindCalls(proc[p].call)) = 1

\* an Invoke of a1 with a cancelled context has returned what the function
\* made of the resolved parameters, with a nil error, and so has one with a
\* live context
CancellationWitness ==
    \E d \in Invoked : \E e \in Invoked :
        /\ d.fn = "a1" /\ e.fn = "a1"
        /\ d.ctx = "ctxCancelled" /\ e.ctx = "ctxLive"
        /\ d.err = Nil /\ e.err = Nil
        /\ d.resp.value.msg = "v1"
        /\ \E j \in FnCalls(d.call) : trace[j].ctx = "ctxCancelled"

\* C24: every Invoke resolves into a parameter instance of its own. The
\* business function sees, field by field, what the resolver of its own
\* invocation wrote and the zero value where that resolver wrote nothing,
\* whatever other invocations of the handler came before or run alongside;
\* and no two invocations were given the same instance.
FreshParamsPerInvoke ==
    /\ \A j \in Pos : trace[j].kind = "fn" =>
           \E i \in BindCalls(trace[j].call) :
               /\ i < j
               /\ trace[j].ptr = trace[i].ptr
               /\ \A f \in DOMAIN trace[j].params :
                      trace[j].params[f] =
                          IF f \in DOMAIN trace[i].writes
                          THEN trace[i].writes[f] ELSE Zero
    /\ \A i \in Pos : \A j \in Pos :
           (trace[i].kind = "bind" /\ trace[j].kind = "bind"
               /\ trace[i].call # trace[j].call) =>
               trace[i].ptr # trace[j].ptr
    /\ \A p \in Procs : proc[p].pc = "inv_bind" =>
           heap[proc[p].params] = [a |-> Zero, b |-> Zero]

\* two overlapping Invokes of a1: the first had its parameters filled with
\* v1 and v2 and has not called the function yet when the function of the
\* second, whose resolver wrote nothing, sees both fields at zero
FreshParamsWitness ==
    \E p \in Procs : \E j \in Pos :
        /\ proc[p].pc = "inv_fn"
        /\ proc[p].api.fn = "a1"
        /\ heap[proc[p].params].a = "v1"
        /\ heap[proc[p].params].b = "v2"
        /\ trace[j].kind = "fn"
        /\ trace[j].fn = "a1"
        /\ trace[j].call > proc[p].call
        /\ trace[j].params = [a |-> Zero, b |-> Zero]

\* the entries of the registration functions of the RouterGroups
RegFnCalls == {i \in Pos : trace[i].kind = "regfn"}

\* the Router's view of the registration made at trace position i
RouteAt(i) ==
    [method |-> router[trace[i].at].method,
     path |-> router[trace[i].at].path,
     api |-> router[trace[i].at].api,
     options |-> router[trace[i].at].options,
     merged |-> router[trace[i].at].merged]

\* C25: RouterGroup.Bind resolves into a fresh zero-valued dependency on
\* every call and leaves the group as it was. The slot a resolver returns
\* from holds what that resolver stored, and the zero value when it stored
\* nothing, whatever earlier Binds of the group supplied or however they
\* ended; the registration function is entered with exactly that value and
\* its handlers are built around it; and two Binds of a group with the same
\* dependency hand the Router the same routes.
FreshDependencyPerBind ==
    /\ \A i \in Pos : trace[i].kind = "resolve" =>
           trace[i].slot =
               IF /\ DepType(trace[i].entry.b) \in trace[i].bind.fills
                  /\ DepType(trace[i].entry.b) \notin trace[i].bind.fail
               THEN trace[i].bind.dep ELSE Zero
    /\ \A j \in RegFnCalls :
           /\ trace[j - 1].kind = "resolve"
           /\ trace[j - 1].call = trace[j].call
           /\ trace[j - 1].idx = trace[j].idx
           /\ trace[j - 1].err = Nil
           /\ trace[j].dep = trace[j - 1].slot
           /\ \A i \in StepsOf("register", trace[j].call, trace[j].idx) :
                  /\ j < i
                  /\ trace[i].given.api.dep = trace[j].dep
                  /\ router[trace[i].at].api.dep = trace[j].dep
    /\ \A i \in Registrations : \A j \in Registrations :
           (/\ trace[i].entry.b = trace[j].entry.b
            /\ trace[i].k = trace[j].k
            /\ trace[i].given.api.dep = trace[j].given.api.dep) =>
               /\ trace[i].given = trace[j].given
               /\ RouteAt(i) = RouteAt(j)

\* group B was bound three times: by a resolver supplying d1, whose Bind
\* registered /b1 around d1; by a resolver that failed; and by a resolver
\* supplying d2, whose Bind has returned having registered /b1 around d2
FreshDependencyWitness ==
    \E i \in RegFnCalls : \E f \in Pos : \E k \in RegFnCalls :
        /\ trace[i].call < trace[f].call /\ trace[f].call < trace[k].call
        /\ trace[i].entry.b = "B" /\ trace[k].entry.b = "B"
        /\ trace[f].kind = "resolve" /\ trace[f].entry.b = "B"
        /\ trace[f].err # Nil
        /\ trace[i].dep = "d1" /\ trace[k].dep = "d2"
        /\ \E n \in StepsOf("register", trace[k].call, trace[k].idx) :
               router[trace[n].at].api = [fn |-> "b1", dep |-> "d2"]
        /\ \E d \in done : d.call = trace[k].call /\ d.op = "Bind"

(* =================== properties of the user store ====================== *)

\* no two users of us have the same username or the same e-mail address
Unique(us) ==
    \A i \in DOMAIN us : \A j \in DOMAIN us :
        i # j => /\ us[i].username # us[j].username
                 /\ us[i].email # us[j].email

\* C26: after any sequence of Create, Update, Delete and
\* UserService.UpdateUser, no two stored users share a username and no two
\* share an e-mail address; and a Create of a user whose username or e-mail
\* address a stored user has returns ErrUserAlreadyExists and leaves the
\* store as it was.
StoreKeepsUnique ==
    /\ Unique(users)
    /\ reply.op = "Create" =>
           ((\E i \in DOMAIN reply.before :
                 \/ reply.before[i].username = reply.user.username
                 \/ reply.before[i].email = reply.user.email)
               => /\ reply.err = "ErrUserAlreadyExists"
                  /\ users = reply.before)

\* the size of the page List is asked for
PageSize(limit) == IF limit = IntOf(0) THEN IntOf(DefaultLimit) ELSE limit

\* C27: List(limit, offset) returns for every int limit and offset, with
\* 0 <= start <= end <= number of stored users, at most limit users (at
\* most 10 when limit is 0), and none when offset is at or beyond the number
\* of stored users.
ListAlwaysReturns ==
    reply.op = "List" =>
        /\ ~reply.panics
        /\ ~IntLess(reply.start, IntOf(0))
        /\ ~IntLess(reply.end, reply.start)
        /\ ~IntLess(IntOf(reply.n), reply.end)
        /\ ~IntLess(PageSize(reply.limit), IntOf(Cardinality(reply.page)))
        /\ ~IntLess(reply.offset, IntOf(reply.n)) => reply.page = {}

====
